---------------------------- MODULE Spec2Model ----------------------------
(***************************************************************************)
(* A model of the storage I/O utility (src/src/in_out.py) and of the       *)
(* brokerage data-access utility (src/src/utils.py).                       *)
(*                                                                         *)
(* Python strings are sequences of symbols.  For the path-dialect helpers  *)
(* a symbol is one character; for file names and error messages a symbol   *)
(* is one character or one word that the code never looks inside.  split,  *)
(* replace and join are the str methods, computed symbol by symbol.        *)
(***************************************************************************)
EXTENDS Integers, Sequences, FiniteSets, TLC

VARIABLES
    \* in_out.py, path-dialect helpers
    p_in, p_posix, p_back, p_pc,
    \* utils.py, instrument lookups
    instrument_list, exchange, q_kind, q_arg, q_first, q_second, q_pc,
    \* utils.py, hist_data_extended
    duration, st_date, end_date, temp_st_date, temp_end_date,
    requests, df_data, h_result, h_pc,
    \* utils.py, hist_data
    c_tickers, c_duration, c_idx, c_now, c_requests, c_result, c_pc,
    \* in_out.py, module global and the file system
    storage_options, files, dir_order,
    \* in_out.py, read
    r_filepath, r_concat, r_kwargs, r_result, r_pc,
    \* in_out.py, write
    w_filepath, w_ext, w_kind, w_sheets, w_idx, w_workbook, w_written,
    w_log, w_result, w_pc

pathVars == <<p_in, p_posix, p_back, p_pc>>
lookupVars == <<instrument_list, exchange, q_kind, q_arg, q_first, q_second, q_pc>>
histVars == <<duration, st_date, end_date, temp_st_date, temp_end_date,
              requests, df_data, h_result, h_pc>>
candleVars == <<c_tickers, c_duration, c_idx, c_now, c_requests, c_result, c_pc>>
readVars == <<files, dir_order, r_filepath, r_concat, r_kwargs, r_result, r_pc>>
writeVars == <<w_filepath, w_ext, w_kind, w_sheets, w_idx, w_workbook,
               w_written, w_log, w_result, w_pc>>
vars == <<pathVars, lookupVars, histVars, candleVars, storage_options, readVars,
         writeVars>>

\* what a component's step leaves alone: the other components
OnlyPath ==
    UNCHANGED <<lookupVars, histVars, candleVars, storage_options, readVars, writeVars>>
OnlyLookup ==
    UNCHANGED <<pathVars, histVars, candleVars, storage_options, readVars, writeVars>>
OnlyHist ==
    UNCHANGED <<pathVars, lookupVars, candleVars, storage_options, readVars, writeVars>>
OnlyCandles ==
    UNCHANGED <<pathVars, lookupVars, histVars, storage_options, readVars, writeVars>>
OnlyRead ==
    UNCHANGED <<pathVars, lookupVars, histVars, candleVars, storage_options, writeVars>>
OnlyWrite ==
    UNCHANGED <<pathVars, lookupVars, histVars, candleVars, storage_options, readVars>>

\* Python's None
None == "None"

(***************************************************************************)
(* str methods                                                             *)
(***************************************************************************)
MatchAt(s, i, pat) ==
    /\ i + Len(pat) - 1 <= Len(s)
    /\ SubSeq(s, i, i + Len(pat) - 1) = pat

RECURSIVE SplitAcc(_, _, _, _)
SplitAcc(s, sep, i, cur) ==
    IF i > Len(s) THEN <<cur>>
    ELSE IF MatchAt(s, i, sep)
         THEN <<cur>> \o SplitAcc(s, sep, i + Len(sep), <<>>)
         ELSE SplitAcc(s, sep, i + 1, Append(cur, s[i]))

\* s.split(sep), sep not empty
split(s, sep) == SplitAcc(s, sep, 1, <<>>)

RECURSIVE join(_, _)
\* sep.join(parts)
join(parts, sep) ==
    IF Len(parts) = 0 THEN <<>>
    ELSE IF Len(parts) = 1 THEN parts[1]
    ELSE parts[1] \o sep \o join(Tail(parts), sep)

RECURSIVE ReplaceFrom(_, _, _, _)
ReplaceFrom(s, old, new, i) ==
    IF i > Len(s) THEN <<>>
    ELSE IF MatchAt(s, i, old)
         THEN new \o ReplaceFrom(s, old, new, i + Len(old))
         ELSE <<s[i]>> \o ReplaceFrom(s, old, new, i + 1)

\* s.replace(old, new); an empty old matches between all symbols
replace(s, old, new) ==
    IF old = <<>>
    THEN new \o join([i \in 1..Len(s) |-> <<s[i]>> \o new], <<>>)
    ELSE ReplaceFrom(s, old, new, 1)

\* the cased letters of the model's alphabet: <<upper, lower>>
Letters == { <<"A", "a">>, <<"B", "b">>, <<"C", "c">>, <<"D", "d">>,
            <<"E", "e">>, <<"M", "m">>, <<"N", "n">>, <<"R", "r">>,
            <<"S", "s">>, <<"T", "t">>, <<"U", "u">>, <<"X", "x">> }

isupper(c) == \E l \in Letters : l[1] = c
LowerSym(c) == IF isupper(c) THEN (CHOOSE l \in Letters : l[1] = c)[2] ELSE c
UpperSym(c) ==
    IF \E l \in Letters : l[2] = c
    THEN (CHOOSE l \in Letters : l[2] = c)[1] ELSE c
lower(s) == [i \in 1..Len(s) |-> LowerSym(s[i])]
upper(s) == [i \in 1..Len(s) |-> UpperSym(s[i])]
startswith(s, pre) == MatchAt(s, 1, pre)

(***************************************************************************)
(* in_out.py: path dialects                                                *)
(***************************************************************************)
\* what a helper yields when path[1] raises IndexError (fewer than two symbols)
IndexError == <<"!IndexError">>

is_win(path) == (path[2] = ":") /\ isupper(path[1])

is_linux(path) == startswith(path, <<"/">>)

win_to_linux(path) ==
    IF is_linux(path) THEN path
    ELSE LET parts == split(path, <<":">>)
             parts2 == [parts EXCEPT ![1] = <<"/", "m", "n", "t", "/">> \o lower(parts[1])]
         IN replace(join(parts2, <<>>), <<"\\">>, <<"/">>)

\* linux_to_win without the removal of "/mnt/"
linux_to_win_keeps_mnt(path) ==
    IF Len(path) < 2 THEN IndexError
    ELSE IF is_win(path) THEN path
    ELSE LET parts == split(path, <<"/">>)
             parts2 == [parts EXCEPT ![1] = upper(parts[1]) \o <<":">>]
         IN join(parts2, <<"\\">>)

linux_to_win(path) ==
    IF Len(path) < 2 THEN IndexError
    ELSE IF is_win(path) THEN path
    ELSE LET stripped == replace(path, <<"/", "m", "n", "t", "/">>, <<>>)
             parts == split(stripped, <<"/">>)
             parts2 == [parts EXCEPT ![1] = upper(parts[1]) \o <<":">>]
         IN join(parts2, <<"\\">>)

\* platform.system().lower() of the host the model runs the code on
System == "linux"

adj_path(path) ==
    IF Len(path) < 2 THEN path
    ELSE IF is_win(path)
         THEN (IF System = "linux" THEN win_to_linux(path) ELSE path)
         ELSE IF is_linux(path)
              THEN (IF System = "windows" THEN linux_to_win(path) ELSE path)
              ELSE path

\* ---- the paths the model converts
MaxTail == 3
TailSyms == {"\\", "/", ":", "a"}
Drives == {"C", "D", "c"}

RECURSIVE SeqsUpTo(_, _)
\* all sequences over S of length at most n
SeqsUpTo(S, n) ==
    IF n = 0 THEN {<<>>}
    ELSE LET shorter == SeqsUpTo(S, n - 1)
         IN shorter \cup {Append(t, x) : t \in shorter, x \in S}

Representative ==
    { <<"C", ":", "\\", "U", "s", "e", "r", "s", "\\", "x">>,
      <<"D", ":", "\\", "d", "a", "t", "a">>,
      <<"C", ":", "\\", "m", "n", "t", "\\", "x">>,
      <<"C", ":", "\\", "a", "\\", "m", "n", "t", "\\", "b">>,
      <<"C", ":", "\\", "m", "n", "t">>,
      <<"/", "m", "n", "t", "/", "c", "/", "a">> }

Paths ==
    {<<d, ":">> \o t : d \in Drives, t \in SeqsUpTo(TailSyms, MaxTail)}
        \cup Representative

IdlePath == p_in = <<>> /\ p_posix = <<>> /\ p_back = <<>> /\ p_pc = "idle"

InitPathVars ==
    /\ p_in \in Paths
    /\ p_posix = <<>>
    /\ p_back = <<>>
    /\ p_pc = "start"

\* path = win_to_linux(path)
WinToLinux ==
    /\ OnlyPath
    /\ p_pc = "start"
    /\ p_posix' = win_to_linux(p_in)
    /\ p_pc' = "posix"
    /\ UNCHANGED <<p_in, p_back>>

\* path = linux_to_win(path)
LinuxToWin ==
    /\ OnlyPath
    /\ p_pc = "posix"
    /\ p_back' = linux_to_win(p_posix)
    /\ p_pc' = "back"
    /\ UNCHANGED <<p_in, p_posix>>

NextPath == WinToLinux \/ LinuxToWin

(***************************************************************************)
(* utils.py: instrument lookups                                            *)
(***************************************************************************)
\* instrument["symbol"].split("-")[-1] == "EQ"
is_equity(instrument) ==
    LET parts == split(instrument.symbol, <<"-">>)
    IN parts[Len(parts)] = <<"EQ">>

RECURSIVE token_lookup_any_suffix(_, _, _)
\* token_lookup without the test of the symbol's suffix
token_lookup_any_suffix(ticker, instruments, exch) ==
    IF instruments = <<>> THEN None
    ELSE IF /\ instruments[1].name = ticker
            /\ instruments[1].exch_seg = exch
         THEN instruments[1].token
         ELSE token_lookup_any_suffix(ticker, Tail(instruments), exch)

RECURSIVE token_lookup(_, _, _)
token_lookup(ticker, instruments, exch) ==
    IF instruments = <<>> THEN None
    ELSE IF /\ instruments[1].name = ticker
            /\ instruments[1].exch_seg = exch
            /\ is_equity(instruments[1])
         THEN instruments[1].token
         ELSE token_lookup(ticker, Tail(instruments), exch)

RECURSIVE symbol_lookup(_, _, _)
symbol_lookup(token, instruments, exch) ==
    IF instruments = <<>> THEN None
    ELSE IF /\ instruments[1].token = token
            /\ instruments[1].exch_seg = exch
            /\ is_equity(instruments[1])
         THEN instruments[1].name
         ELSE symbol_lookup(token, Tail(instruments), exch)

\* the default of the exchange parameter
DefaultExchange == "NSE"

\* ---- the instrument lists the model looks things up in
MaxInstruments == 2
Names == {"FOO", "BAR"}
Tokens == {"123", "456"}
Exchanges == {"NSE", "BSE"}
Symbols == { <<"FOO", "-", "EQ">>, <<"FOO", "-", "FUT">> }
Instruments ==
    [name : Names, symbol : Symbols, exch_seg : Exchanges, token : Tokens]

IdleLookup ==
    /\ instrument_list = <<>>
    /\ exchange = DefaultExchange
    /\ q_kind = None /\ q_arg = None /\ q_first = None /\ q_second = None
    /\ q_pc = "idle"

InitLookupVars ==
    /\ instrument_list \in SeqsUpTo(Instruments, MaxInstruments)
    /\ exchange \in Exchanges
    /\ q_kind = None /\ q_arg = None /\ q_first = None /\ q_second = None
    /\ q_pc = "start"

\* token_lookup(ticker, instrument_list, exchange)
TokenLookup ==
    /\ OnlyLookup
    /\ q_pc = "start"
    /\ \E ticker \in Names :
          /\ q_arg' = ticker
          /\ q_first' = token_lookup(ticker, instrument_list, exchange)
    /\ q_kind' = "name"
    /\ q_pc' = "first"
    /\ UNCHANGED <<instrument_list, exchange, q_second>>

\* symbol_lookup(token, instrument_list, exchange)
SymbolLookup ==
    /\ OnlyLookup
    /\ q_pc = "start"
    /\ \E token \in Tokens :
          /\ q_arg' = token
          /\ q_first' = symbol_lookup(token, instrument_list, exchange)
    /\ q_kind' = "token"
    /\ q_pc' = "first"
    /\ UNCHANGED <<instrument_list, exchange, q_second>>

\* symbol_lookup(token_lookup(...), ...)
SymbolOfToken ==
    /\ OnlyLookup
    /\ q_pc = "first" /\ q_kind = "name"
    /\ q_second' = symbol_lookup(q_first, instrument_list, exchange)
    /\ q_pc' = "second"
    /\ UNCHANGED <<instrument_list, exchange, q_kind, q_arg, q_first>>

\* token_lookup(symbol_lookup(...), ...)
TokenOfSymbol ==
    /\ OnlyLookup
    /\ q_pc = "first" /\ q_kind = "token"
    /\ q_second' = token_lookup(q_first, instrument_list, exchange)
    /\ q_pc' = "second"
    /\ UNCHANGED <<instrument_list, exchange, q_kind, q_arg, q_first>>

NextLookup == TokenLookup \/ SymbolLookup \/ SymbolOfToken \/ TokenOfSymbol

(***************************************************************************)
(* utils.py: hist_data_extended                                            *)
(*                                                                         *)
(* A datetime is a number of minutes from 00:00 of dt.date.today().        *)
(***************************************************************************)
Day == 24 * 60
StartHour == 3
StartMinute == 30
YesterdayDays == 1
WindowDays == 30
StepDays == 1
timedelta(days) == days * Day

\* dt.datetime.strftime("%Y-%m-%d %H:%M"): the date, the hour and the minute
strftime(t) ==
    [date |-> t \div Day, hour |-> (t % Day) \div 60, minute |-> t % 60]

\* the instant a formatted "%Y-%m-%d %H:%M" names
strptime(f) == f.date * Day + f.hour * 60 + f.minute

\* the start of the window after the one that ends at temp_end
next_start_no_step(temp_end) == temp_end

next_start(temp_end) == temp_end + timedelta(StepDays)

\* lines 105-107
next_end(temp_st, end) ==
    IF temp_st + timedelta(WindowDays) > end
    THEN end ELSE temp_st + timedelta(WindowDays)

\* the loop's test, line 80
more_windows(temp_end, end) == temp_end < end

\* pd.to_datetime(...).tz_localize(None): the wall-clock time, offset dropped
tz_localize_none(stamp) == stamp.wall

\* df_data.set_index("date") and lines 110-111
set_index(rows) ==
    [i \in 1..Len(rows) |->
        [index |-> tz_localize_none(rows[i].date),
         open |-> rows[i].open, high |-> rows[i].high, low |-> rows[i].low,
         close |-> rows[i].close, volume |-> rows[i].volume]]

\* the columns DataFrame.drop_duplicates compares: all of them, never the index
columns(row) == <<row.open, row.high, row.low, row.close, row.volume>>

\* keep="first": row i stays when no earlier row has the same columns
RECURSIVE keep_first(_, _)
keep_first(rows, i) ==
    IF i > Len(rows) THEN <<>>
    ELSE (IF \A j \in 1..(i - 1) : columns(rows[j]) # columns(rows[i])
          THEN <<rows[i]>> ELSE <<>>) \o keep_first(rows, i + 1)

\* df_data.drop_duplicates(keep="first")
drop_duplicates(rows) == keep_first(rows, 1)

\* ---- what the model asks for and what the API answers
MaxDuration == 100
MaxRows == 2
MaxStamp == 2
MaxPrice == 2
Offset == 5 * 60 + 30
Stamps == [wall : 1..MaxStamp, offset : {Offset}]
CandleRows ==
    [date : Stamps, open : {1}, high : {1}, low : {1}, close : 1..MaxPrice,
     volume : {1}]
Ticker == "FOO"
Interval == "ONE_DAY"
HistInstruments ==
    << [name |-> "FOO", symbol |-> <<"FOO", "-", "EQ">>, exch_seg |-> "NSE",
        token |-> "123"] >>

IdleHist ==
    /\ duration = 0 /\ st_date = 0 /\ end_date = 0
    /\ temp_st_date = 0 /\ temp_end_date = 0
    /\ requests = <<>> /\ df_data = <<>> /\ h_result = <<>>
    /\ h_pc = "idle"

\* lines 71-78; the caller runs one fetcher at a time
HistStart ==
    /\ OnlyHist
    /\ h_pc = "idle"
    /\ c_pc = "idle"
    /\ \E d \in 0..MaxDuration :
          /\ duration' = d
          /\ st_date' = timedelta(0 - d) + StartHour * 60 + StartMinute
          /\ end_date' = timedelta(0 - YesterdayDays)
          /\ temp_st_date' = timedelta(0 - d) + StartHour * 60 + StartMinute
          /\ temp_end_date' =
                 timedelta(0 - d) + StartHour * 60 + StartMinute
                     + timedelta(WindowDays)
    /\ requests' = <<>>
    /\ df_data' = <<>>
    /\ h_pc' = "loop"
    /\ UNCHANGED <<h_result>>

\* one pass of the while loop, lines 80-107
HistRequest ==
    /\ OnlyHist
    /\ h_pc = "loop"
    /\ more_windows(temp_end_date, end_date)
    /\ requests' = Append(requests,
           [exchange |-> exchange,
            symboltoken |-> token_lookup(Ticker, instrument_list, DefaultExchange),
            interval |-> Interval,
            fromdate |-> strftime(temp_st_date),
            todate |-> strftime(temp_end_date)])
    /\ \E data \in SeqsUpTo(CandleRows, MaxRows - Len(df_data)) :
          df_data' = df_data \o data
    /\ temp_st_date' = next_start(temp_end_date)
    /\ temp_end_date' = next_end(next_start(temp_end_date), end_date)
    /\ UNCHANGED <<duration, st_date, end_date, h_result, h_pc>>

\* lines 109-113
HistReturn ==
    /\ OnlyHist
    /\ h_pc = "loop"
    /\ ~ more_windows(temp_end_date, end_date)
    /\ h_result' = drop_duplicates(set_index(df_data))
    /\ h_pc' = "done"
    /\ UNCHANGED <<duration, st_date, end_date, temp_st_date, temp_end_date,
                   requests, df_data>>

NextHist == HistStart \/ HistRequest \/ HistReturn

(***************************************************************************)
(* utils.py, hist_data: one request per ticker                             *)
(***************************************************************************)
\* ---- what the model asks for and what the API answers
MaxDays == 2
TickerLists == { <<>>, <<"FOO">>, <<"FOO", "BAR">> }
\* dt.datetime.now(), in minutes since today 00:00
Clock == {0, Day - 1}
\* hist_data["data"] of one answer
CandleAnswers == {<<>>} \cup { <<row>> : row \in CandleRows }

IdleCandles ==
    /\ c_tickers = <<>> /\ c_duration = 0 /\ c_idx = 0 /\ c_now = 0
    /\ c_requests = <<>> /\ c_result = <<>>
    /\ c_pc = "idle"

\* hist_data is called, line 120; the caller runs one fetcher at a time
HistDataStart ==
    /\ OnlyCandles
    /\ c_pc = "idle"
    /\ h_pc = "idle"
    /\ \E tickers \in TickerLists, d \in 0..MaxDays :
          /\ c_tickers' = tickers
          /\ c_duration' = d
    /\ c_idx' = 1
    /\ c_requests' = <<>>
    /\ c_result' = <<>>
    /\ c_pc' = "loop"
    /\ UNCHANGED <<c_now>>

\* one pass of the for loop, lines 121-133
HistDataRequest ==
    /\ OnlyCandles
    /\ c_pc = "loop"
    /\ c_idx <= Len(c_tickers)
    /\ \E now \in Clock, data \in CandleAnswers :
          /\ now >= c_now
          /\ c_now' = now
          /\ c_requests' = Append(c_requests,
                 [exchange |-> exchange,
                  symboltoken |->
                      token_lookup(c_tickers[c_idx], instrument_list, DefaultExchange),
                  interval |-> Interval,
                  fromdate |-> strftime(timedelta(0 - c_duration)),
                  todate |-> strftime(now)])
          /\ c_result' =
                 [t \in (DOMAIN c_result) \cup {c_tickers[c_idx]} |->
                     IF t = c_tickers[c_idx] THEN set_index(data) ELSE c_result[t]]
    /\ c_idx' = c_idx + 1
    /\ UNCHANGED <<c_tickers, c_duration, c_pc>>

\* line 134
HistDataReturn ==
    /\ OnlyCandles
    /\ c_pc = "loop"
    /\ c_idx > Len(c_tickers)
    /\ c_pc' = "done"
    /\ UNCHANGED <<c_tickers, c_duration, c_idx, c_now, c_requests, c_result>>

NextCandles == HistDataStart \/ HistDataRequest \/ HistDataReturn

(***************************************************************************)
(* in_out.py: the module global, the file system, what a call yields       *)
(***************************************************************************)
\* storage_options is declared global and assigned nowhere in the module:
\* it is undefined until the embedding application assigns it
Configure ==
    /\ storage_options = "undefined"
    /\ storage_options' = "defined"

Raised(exc) == [kind |-> "raised", exc |-> exc, columns |-> {}, rows |-> <<>>]
Dataset(cols, rows) == [kind |-> "dataset", exc |-> None, columns |-> cols, rows |-> rows]
Text(f) == [kind |-> "text", exc |-> None, columns |-> {}, rows |-> <<f>>]
Nothing == [kind |-> "none", exc |-> None, columns |-> {}, rows |-> <<>>]

RECURSIVE LastIndexOf(_, _, _)
\* the last position of symbol c in s at or before i, 0 when there is none
LastIndexOf(s, c, i) ==
    IF i = 0 THEN 0 ELSE IF s[i] = c THEN i ELSE LastIndexOf(s, c, i - 1)

\* os.path.basename (posixpath)
basename(path) == SubSeq(path, LastIndexOf(path, "/", Len(path)) + 1, Len(path))

\* os.path.splitext(path)[1][1:]: the text after the last dot of the last
\* component, dots that lead the component apart
splitext_ext(path) ==
    LET base == basename(path)
        dot == LastIndexOf(base, ".", Len(base))
        leading == \A i \in 1..dot : base[i] = "."
    IN IF dot = 0 \/ leading THEN <<>> ELSE SubSeq(base, dot + 1, Len(base))

\* os.path.join(a, b) (posixpath)
path_join(a, b) ==
    IF startswith(b, <<"/">>) THEN b
    ELSE IF a = <<>> \/ a[Len(a)] = "/" THEN a \o b
    ELSE a \o <<"/">> \o b

(***************************************************************************)
(* in_out.py: read                                                         *)
(***************************************************************************)
\* ---- the directory the model reads: "data" and the files it may hold
ReadDir == <<"data">>
FileUniverse ==
    { <<"data", "/", "a", ".", "parquet">>,
      <<"data", "/", "b", ".", "parquet">>,
      <<"data", "/", "c", ".", "csv">>,
      <<"data", "/", "d", ".", "csv">>,
      <<"data", "/", "m", ".", "json">>,
      <<"data", "/", "n", ".", "txt">> }

\* the paths in sorted order: a directory handed to pd.read_parquet is read
\* as one dataset, whose files the library sorts by path
ByPath ==
    << <<"data", "/", "a", ".", "parquet">>,
       <<"data", "/", "b", ".", "parquet">>,
       <<"data", "/", "c", ".", "csv">>,
       <<"data", "/", "d", ".", "csv">>,
       <<"data", "/", "m", ".", "json">>,
       <<"data", "/", "n", ".", "txt">> >>

\* the orders in which os.scandir may yield the entries of a directory:
\* glob documents none, every order of the files present is possible
ListingOrders ==
    UNION { { order \in [1..n -> FileUniverse] :
                \A i, j \in 1..n : order[i] = order[j] => i = j } :
            n \in 0..Cardinality(FileUniverse) }

\* what a file of the model holds: one row naming the file; a csv export
\* carries the index column "Unnamed: 0", and d.csv a column "date"
FileColumns(f) ==
    IF f = <<"data", "/", "d", ".", "csv">> THEN {"Unnamed: 0", "date", "x"}
    ELSE IF splitext_ext(f) = <<"csv">> THEN {"Unnamed: 0", "x"}
    ELSE {"x"}

\* the entries of directory dir, named with or without a trailing "/", in
\* the order the file system yields them
listing(dir, fs, order) ==
    LET prefix == IF dir # <<>> /\ dir[Len(dir)] = "/" THEN dir ELSE dir \o <<"/">>
        inside(f) == f \in fs /\ startswith(f, prefix)
    IN SelectSeq(order, inside)

\* glob(f"{folder_path}/*{file}") with folder_path = f"{filepath}/"
glob(filepath, file, fs, order) ==
    LET hit(f) == f[Len(f)] = file
    IN SelectSeq(listing(filepath, fs, order), hit)

\* lines 74-78: drops the column "Unnamed: 0"; on a column "date" it calls
\* df.pd_cols_to_datetime(), a method that nothing in the repository defines
read_preprocess(df) ==
    IF df.kind # "dataset" THEN df
    ELSE IF "date" \in df.columns THEN Raised("AttributeError")
    ELSE [df EXCEPT !.columns = df.columns \ {"Unnamed: 0"}]

\* the keyword arguments of read that its code looks at: conn, model (an
\* object with load_model, with load only, or with neither) and assign_model
NoKwargs == [conn |-> FALSE, model |-> None, assign_model |-> FALSE]
Loaded(f) == [kind |-> "loaded", exc |-> None, columns |-> {}, rows |-> <<f>>]
Model(f) == [kind |-> "model", exc |-> None, columns |-> {}, rows |-> <<f>>]

\* pd.read_parquet(path, storage_options=storage_options, **kwargs): of a
\* file, its rows; of a directory, the rows of every file in it, each one
\* read as parquet.  conn and model are no keywords of the parquet reader.
\* What the library makes of a directory with no file in it differs
\* between its engines and versions: emptydir is that outcome.
read_parquet(path, so, fs, emptydir, kwargs) ==
    LET entries == listing(path, fs, ByPath)
        isdir == path = ReadDir \/ path = ReadDir \o <<"/">>
    IN IF so = "undefined" THEN Raised("NameError")
       ELSE IF path \notin fs /\ ~ isdir THEN Raised("FileNotFoundError")
       ELSE IF kwargs # NoKwargs THEN Raised("TypeError")
       ELSE IF path \in fs
       THEN (IF splitext_ext(path) = <<"parquet">>
             THEN Dataset(FileColumns(path), <<path>>)
             ELSE Raised("ArrowInvalid"))
       ELSE IF entries = <<>> THEN emptydir
       ELSE IF \E i \in 1..Len(entries) : splitext_ext(entries[i]) # <<"parquet">>
       THEN Raised("ArrowInvalid")
       ELSE Dataset({"x"}, entries)

\* lines 160-162: pd.read_sql is handed con and, through **kwargs, conn as
\* well, which is no parameter of it
read_sql == Raised("TypeError")

\* lines 164-180: the file is opened for pkl, pickle and joblib; load_model
\* is tried, then load when the object has no load_model; the folder tmp/
\* is removed, which holds none of the model's files
load_model(filepath, kwargs, fs) ==
    IF splitext_ext(filepath) \in {<<"pkl">>, <<"pickle">>, <<"joblib">>}
           /\ filepath \notin fs
    THEN Raised("FileNotFoundError")
    ELSE IF kwargs.model = "neither" THEN Raised("AttributeError")
    ELSE IF kwargs.assign_model THEN Loaded(filepath)
    ELSE Model(filepath)

\* the single-file dispatch of read, lines 160-212
read_file(filepath, so, fs, kwargs) ==
    LET ext == splitext_ext(filepath)
    IN IF kwargs.conn THEN read_sql
       ELSE IF kwargs.model # None THEN load_model(filepath, kwargs, fs)
       ELSE IF ext \in {<<"xlsx">>, <<"xls">>, <<"csv">>, <<"parquet">>, <<"sas7bdat">>}
       THEN (IF so = "undefined" THEN Raised("NameError")
             ELSE IF filepath \notin fs THEN Raised("FileNotFoundError")
             ELSE read_preprocess(Dataset(FileColumns(filepath), <<filepath>>)))
       ELSE IF ext = <<"feather">>
       THEN (IF so = "undefined" THEN Raised("NameError")
             ELSE IF filepath \notin fs THEN Raised("FileNotFoundError")
             ELSE Dataset(FileColumns(filepath), <<filepath>>))
       ELSE IF ext \in {<<"pkl">>, <<"yml">>, <<"yaml">>, <<"pickle">>, <<"joblib">>,
                        <<"txt">>}
       THEN (IF filepath \notin fs THEN Raised("FileNotFoundError")
             ELSE Text(filepath))
       ELSE Nothing

\* the results that are not None, in their order
not_none(results) == SelectSeq(results, LAMBDA r : r.kind # "none")

RECURSIVE concat_frames(_)
\* the frames of a list of datasets, one after the other
concat_frames(frames) ==
    IF frames = <<>> THEN Dataset({}, <<>>)
    ELSE LET rest == concat_frames(Tail(frames))
         IN Dataset(frames[1].columns \cup rest.columns, frames[1].rows \o rest.rows)

\* pd.concat([read(f) for f in files]), line 149: the first read that raises
\* ends the comprehension; pd.concat drops the None objects, raises
\* ValueError when nothing is left and TypeError on what is not a dataset
pd_concat(results) ==
    IF \E i \in 1..Len(results) : results[i].kind = "raised"
    THEN results[CHOOSE i \in 1..Len(results) :
                     /\ results[i].kind = "raised"
                     /\ \A j \in 1..(i - 1) : results[j].kind # "raised"]
    ELSE IF not_none(results) = <<>> THEN Raised("ValueError")
    ELSE IF \E i \in 1..Len(results) : results[i].kind \notin {"dataset", "none"}
    THEN Raised("TypeError")
    ELSE concat_frames(not_none(results))

\* the value of concat: None, a str or a list of str
ConcatStr(x) == [type |-> "str", value |-> <<x>>]
ConcatList(xs) == [type |-> "list", value |-> xs]
NoConcat == [type |-> "None", value |-> <<>>]

\* lines 139-140
default_concat(ext, concat) ==
    IF ext = <<>> /\ concat = NoConcat THEN ConcatStr("parquet") ELSE concat

\* read(filepath, concat, **kwargs), lines 133-212
read(filepath0, concat0, kwargs, so, fs, order, emptydir) ==
    LET filepath == adj_path(filepath0)
        ext == splitext_ext(filepath)
        concat == default_concat(ext, concat0)
    IN IF concat # NoConcat /\ concat # ConcatStr("parquet")
       THEN LET found == join([i \in 1..Len(concat.value) |->
                                   glob(filepath, concat.value[i], fs, order)], <<>>)
            IN IF found # <<>>
               THEN pd_concat([i \in 1..Len(found) |->
                                   read_file(found[i], so, fs, kwargs)])
               ELSE Dataset({}, <<>>)
       ELSE IF concat = ConcatStr("parquet")
       THEN read_preprocess(read_parquet(filepath, so, fs, emptydir, kwargs))
       ELSE read_file(filepath, so, fs, kwargs)

\* ---- the calls the model makes
ReadPaths == {ReadDir} \cup FileUniverse
Concats ==
    { NoConcat, ConcatStr("parquet"), ConcatStr("csv"),
      ConcatList(<<"csv", "txt">>), ConcatList(<<"parquet">>),
      ConcatStr("json"), ConcatList(<<"csv", "json">>) }
Kwargs ==
    { NoKwargs,
      [conn |-> TRUE, model |-> None, assign_model |-> FALSE],
      [conn |-> FALSE, model |-> "load_model", assign_model |-> FALSE],
      [conn |-> FALSE, model |-> "load_model", assign_model |-> TRUE],
      [conn |-> FALSE, model |-> "load", assign_model |-> FALSE],
      [conn |-> FALSE, model |-> "neither", assign_model |-> FALSE] }
EmptyDirOutcomes == { Dataset({}, <<>>), Raised("ArrowInvalid") }

IdleRead ==
    /\ files = {} /\ dir_order = <<>>
    /\ r_filepath = <<>> /\ r_concat = NoConcat /\ r_kwargs = NoKwargs
    /\ r_result = Nothing
    /\ r_pc = "idle"

InitReadVars ==
    /\ dir_order \in ListingOrders
    /\ files = {dir_order[i] : i \in 1..Len(dir_order)}
    /\ r_filepath = <<>> /\ r_concat = NoConcat /\ r_kwargs = NoKwargs
    /\ r_result = Nothing
    /\ r_pc = "start"

Read ==
    /\ OnlyRead
    /\ r_pc = "start"
    /\ \E filepath \in ReadPaths, concat \in Concats, kwargs \in Kwargs,
          emptydir \in EmptyDirOutcomes :
          /\ r_filepath' = filepath
          /\ r_concat' = concat
          /\ r_kwargs' = kwargs
          /\ r_result' = read(filepath, concat, kwargs, storage_options, files,
                              dir_order, emptydir)
    /\ r_pc' = "done"
    /\ UNCHANGED <<files, dir_order>>

(***************************************************************************)
(* in_out.py: write                                                        *)
(***************************************************************************)
\* line 265
write_ext(filepath) ==
    LET parts == split(filepath, <<".">>) IN parts[Len(parts)]

\* lines 266-277
Supported ==
    { <<"xlsx">>, <<"xls">>, <<"csv">>, <<"parquet">>, <<"yml">>, <<"yaml">>,
      <<"pkl">>, <<"pickle">>, <<"ubj">>, <<"joblib">> }

\* the library call each branch of lines 279-380 hands the data to; "none"
\* for an extension no branch takes
writer_of(ext) ==
    IF ext \in {<<"xlsx">>, <<"xls">>} THEN "to_excel"
    ELSE IF ext = <<"csv">> THEN "to_csv"
    ELSE IF ext = <<"parquet">> THEN "to_parquet"
    ELSE IF ext = <<"feather">> THEN "to_feather"
    ELSE IF ext = <<"pkl">> THEN "pkl.dump"
    ELSE IF ext \in {<<"yml">>, <<"yaml">>} THEN "yaml.dump"
    ELSE IF ext = <<"joblib">> THEN "joblib.dump"
    ELSE IF ext = <<"ubj">> THEN "save_model"
    ELSE "none"

\* the branches that pass storage_options
needs_storage_options(ext) ==
    ext \in {<<"xlsx">>, <<"xls">>, <<"csv">>, <<"parquet">>, <<"feather">>}

\* ---- a parquet write, lines 349-356
\* the messages of the errors to_parquet raises in the model
MsgColumnA == <<"Conversion failed for ", "column ", "a", " ", "with type object">>
MsgColumnB == <<"Conversion failed for ", "column ", "b", " ", "with type object">>
MsgNoColumn == <<"Disk quota exceeded">>
MsgOtherColumn == <<"Duplicate ", "column ", "names", " ", "found">>
MsgNameError == <<"name 'storage_options' is not defined">>
Messages == {MsgColumnA, MsgColumnB, MsgNoColumn, MsgOtherColumn}

\* the dataset's columns and their types before the write
Dtypes0 == [c \in {<<"a">>, <<"b">>} |-> "object"]

ParquetDone(result, dtypes, wrote) ==
    [result |-> result, attempts |-> 1, coerced |-> <<>>, dtypes |-> dtypes,
     wrote |-> wrote]

\* what follows a failed attempt, lines 353-356, without the retry's retry
retry_once(msg, dtypes, so, script) ==
    LET parts == split(msg, <<"column ">>)
        object_columns == split(parts[2], <<" ">>)[1]
        coerced == [dtypes EXCEPT ![object_columns] = "str"]
    IN IF Len(parts) < 2 THEN ParquetDone("IndexError", dtypes, FALSE)
       ELSE IF object_columns \notin DOMAIN dtypes
       THEN ParquetDone("KeyError", dtypes, FALSE)
       ELSE IF so = "undefined" \/ script # <<>>
       THEN [result |-> "ArrowInvalid", attempts |-> 2,
             coerced |-> <<object_columns>>, dtypes |-> coerced, wrote |-> FALSE]
       ELSE [result |-> "returned", attempts |-> 2,
             coerced |-> <<object_columns>>, dtypes |-> coerced, wrote |-> TRUE]

\* a parquet write whose retry is not retried
write_parquet_one_retry(dtypes, so, script) ==
    IF so = "undefined" THEN retry_once(MsgNameError, dtypes, so, <<>>)
    ELSE IF script = <<>> THEN ParquetDone("returned", dtypes, TRUE)
    ELSE retry_once(Head(script), dtypes, so, Tail(script))

RECURSIVE write_parquet(_, _, _)
\* write(data, filepath) for a parquet path.  script: the messages of the
\* errors the successive to_parquet calls raise; the call after the last of
\* them succeeds.  Yields the outcome, the number of to_parquet calls, the
\* columns coerced in order, the column types left, and whether a file is
\* written.
write_parquet(dtypes, so, script) ==
    LET msg == IF so = "undefined" THEN MsgNameError ELSE Head(script)
        parts == split(msg, <<"column ">>)
        object_columns == split(parts[2], <<" ">>)[1]
        again == write_parquet([dtypes EXCEPT ![object_columns] = "str"], so,
                               Tail(script))
    IN IF so = "defined" /\ script = <<>> THEN ParquetDone("returned", dtypes, TRUE)
       ELSE IF Len(parts) < 2 THEN ParquetDone("IndexError", dtypes, FALSE)
       ELSE IF object_columns \notin DOMAIN dtypes
       THEN ParquetDone("KeyError", dtypes, FALSE)
       ELSE [again EXCEPT !.attempts = again.attempts + 1,
                          !.coerced = <<object_columns>> \o again.coerced]

\* ---- the sidecar of a sheet, lines 289-295
temp_path(filepath, sheet) ==
    path_join(replace(filepath, basename(filepath), <<>>), sheet)
        \o <<".", "parquet">>

\* ---- the calls the model makes
MaxFailures == 2
MaxSheets == 2
Scripts == SeqsUpTo(Messages, MaxFailures)
ExtUniverse == Supported \cup { <<"feather">>, <<"txt">> }
WritePaths ==
    { <<"out", "/", "book", ".">> \o e : e \in ExtUniverse }
        \cup { <<"out", "/", "book">>,
               <<"book", ".", "xlsx", "/", "book", ".", "xlsx">> }
SheetNames == { <<"s1">>, <<"s2">>, <<"/", "s3">> }
SheetLists ==
    { l \in SeqsUpTo(SheetNames, MaxSheets) :
         \A i, j \in 1..Len(l) : i # j => l[i] # l[j] }
\* what the data of a call is: a dataset, a mapping of sheet name to
\* dataset, or a model object
DataKinds == {"DataFrame", "dict", "model"}
\* the failures of data[sheet].to_excel: a ValueError or anything else
SheetOutcomes == {"ok", "ValueError", "TypeError"}

\* every parquet write the model can make, by the column types before it,
\* storage_options and the script
DtypeStates == [{<<"a">>, <<"b">>} -> {"object", "str"}]
ParquetRuns ==
    [d \in DtypeStates, so \in {"undefined", "defined"}, script \in Scripts |->
        write_parquet(d, so, script)]

IdleWrite ==
    /\ w_filepath = <<>> /\ w_ext = <<>> /\ w_kind = None
    /\ w_sheets = <<>> /\ w_idx = 0 /\ w_workbook = <<>>
    /\ w_written = {} /\ w_log = <<>> /\ w_result = None
    /\ w_pc = "idle"

InitWriteVars ==
    /\ w_filepath = <<>> /\ w_ext = <<>> /\ w_kind = None
    /\ w_sheets = <<>> /\ w_idx = 0 /\ w_workbook = <<>>
    /\ w_written = {} /\ w_log = <<>> /\ w_result = None
    /\ w_pc = "start"

File(path, writer) == [path |-> path, writer |-> writer]

\* write(data, filepath) for every case but a mapping written to a
\* workbook and a dataset written to parquet; the library call succeeds on
\* data of the type it takes
WriteCall ==
    /\ OnlyWrite
    /\ w_pc = "start"
    /\ \E filepath \in WritePaths, kind \in DataKinds :
          LET path == adj_path(filepath)
              ext == write_ext(path)
          IN /\ ~ (ext \in {<<"xlsx">>, <<"xls">>} /\ kind = "dict")
             /\ ext # <<"parquet">>
             /\ w_filepath' = path
             /\ w_ext' = ext
             /\ w_kind' = kind
             /\ IF ext \notin Supported
                THEN w_result' = "NotImplementedError" /\ w_written' = {}
                ELSE IF ext \in {<<"xlsx">>, <<"xls">>, <<"csv">>} /\ kind # "DataFrame"
                THEN w_result' = "AssertionError" /\ w_written' = {}
                ELSE IF needs_storage_options(ext) /\ storage_options = "undefined"
                THEN w_result' = "NameError" /\ w_written' = {}
                ELSE IF ext \in {<<"yml">>, <<"yaml">>} /\ kind = "model"
                THEN w_result' = "TypeError" /\ w_written' = {File(path, "open")}
                ELSE IF ext = <<"ubj">> /\ kind # "model"
                THEN w_result' = "AttributeError" /\ w_written' = {}
                ELSE /\ w_result' = "returned"
                     /\ w_written' = IF writer_of(ext) = "none" THEN {}
                                     ELSE {File(path, writer_of(ext))}
    /\ w_pc' = "done"
    /\ UNCHANGED <<w_sheets, w_idx, w_workbook, w_log>>

\* write(data, filepath) of a dataset to a parquet path
WriteParquet ==
    /\ OnlyWrite
    /\ w_pc = "start"
    /\ \E filepath \in WritePaths, kind \in DataKinds, script \in Scripts :
          LET path == adj_path(filepath)
              run == ParquetRuns[Dtypes0, storage_options, script]
          IN /\ write_ext(path) = <<"parquet">>
             /\ w_filepath' = path
             /\ w_ext' = write_ext(path)
             /\ w_kind' = kind
             /\ IF kind # "DataFrame"
                THEN /\ script = <<>>
                     /\ w_result' = "AssertionError"
                     /\ w_written' = {}
                     /\ w_log' = <<>>
                ELSE /\ w_result' = run.result
                     /\ w_written' = IF run.wrote THEN {File(path, "to_parquet")}
                                     ELSE {}
                     /\ w_log' = <<[script |-> script, attempts |-> run.attempts,
                                    coerced |-> run.coerced, dtypes |-> run.dtypes]>>
    /\ w_pc' = "done"
    /\ UNCHANGED <<w_sheets, w_idx, w_workbook>>

\* write(data, filepath) of a mapping of sheet name to dataset to a
\* workbook: the ExcelWriter is opened, line 281
WriteSheetsOpen ==
    /\ OnlyWrite
    /\ w_pc = "start"
    /\ \E filepath \in WritePaths, sheets \in SheetLists :
          /\ write_ext(adj_path(filepath)) \in {<<"xlsx">>, <<"xls">>}
          /\ w_filepath' = adj_path(filepath)
          /\ w_ext' = write_ext(adj_path(filepath))
          /\ w_sheets' = sheets
    /\ w_kind' = "dict"
    /\ w_idx' = 1
    /\ w_workbook' = <<>>
    /\ w_written' = {}
    /\ w_log' = <<>>
    /\ IF storage_options = "undefined"
       THEN w_result' = "NameError" /\ w_pc' = "done"
       ELSE w_result' = None /\ w_pc' = "sheets"

\* Leaving the with block closes the ExcelWriter, which saves the workbook.
\* A workbook no sheet was added to is saved by one engine and refused with
\* an IndexError by another: saves is which.
close_saves(workbook, saves) == workbook # <<>> \/ saves

\* one pass of the loop over the sheets, lines 282-302: to_excel and, when
\* it raises ValueError, the first write of the sidecar
WriteSheet ==
    /\ OnlyWrite
    /\ w_pc = "sheets"
    /\ w_idx <= Len(w_sheets)
    /\ \E outcome \in SheetOutcomes :
       \E saves \in (IF w_workbook = <<>> /\ outcome # "ok" THEN BOOLEAN ELSE {TRUE}) :
       \E script \in (IF outcome = "ValueError" THEN Scripts ELSE {<<>>}) :
          LET sheet == w_sheets[w_idx]
              side == adj_path(temp_path(w_filepath, sheet))
              first == ParquetRuns[Dtypes0, storage_options, script]
              saved == IF close_saves(w_workbook, saves)
                       THEN {File(w_filepath, "ExcelWriter")} ELSE {}
              raised(exc) == IF close_saves(w_workbook, saves) THEN exc
                             ELSE "IndexError"
          IN \/ /\ outcome = "ok"
                /\ w_workbook' = Append(w_workbook, sheet)
                /\ w_log' = Append(w_log, [sheet |-> sheet, to_excel |-> "ok",
                                           sidecar |-> None, dtypes |-> Dtypes0])
                /\ w_idx' = w_idx + 1
                /\ UNCHANGED <<w_written, w_result, w_pc>>
             \/ /\ outcome = "ValueError"
                /\ first.result = "returned"
                /\ w_log' = Append(w_log, [sheet |-> sheet, to_excel |-> outcome,
                                           sidecar |-> "written",
                                           dtypes |-> first.dtypes])
                /\ w_written' = w_written \cup {File(side, "to_parquet")}
                /\ w_pc' = "again"
                /\ UNCHANGED <<w_workbook, w_idx, w_result>>
             \/ /\ outcome = "ValueError"
                /\ first.result # "returned"
                /\ w_log' = Append(w_log, [sheet |-> sheet, to_excel |-> outcome,
                                           sidecar |-> "raised",
                                           dtypes |-> first.dtypes])
                /\ w_written' = w_written \cup saved
                /\ w_result' = raised(first.result)
                /\ w_pc' = "done"
                /\ UNCHANGED <<w_workbook, w_idx>>
             \/ /\ outcome \notin {"ok", "ValueError"}
                /\ w_log' = Append(w_log, [sheet |-> sheet, to_excel |-> outcome,
                                           sidecar |-> None, dtypes |-> Dtypes0])
                /\ w_written' = w_written \cup saved
                /\ w_result' = raised(outcome)
                /\ w_pc' = "done"
                /\ UNCHANGED <<w_workbook, w_idx>>
    /\ UNCHANGED <<w_filepath, w_ext, w_kind, w_sheets>>

\* the rest of the except block, lines 303-317: the sidecar is written a
\* second time, from the dataset the first write left
WriteSheetAgain ==
    /\ OnlyWrite
    /\ w_pc = "again"
    /\ \E script \in Scripts :
       \E saves \in (IF w_workbook = <<>> /\ script # <<>> THEN BOOLEAN ELSE {TRUE}) :
          LET entry == w_log[Len(w_log)]
              second == ParquetRuns[entry.dtypes, storage_options, script]
          IN IF second.result = "returned"
             THEN /\ saves
                  /\ w_log' = [w_log EXCEPT ![Len(w_log)].sidecar = "returned",
                                            ![Len(w_log)].dtypes = second.dtypes]
                  /\ w_idx' = w_idx + 1
                  /\ w_pc' = "sheets"
                  /\ UNCHANGED <<w_written, w_result>>
             ELSE /\ w_log' = [w_log EXCEPT ![Len(w_log)].sidecar = "raised",
                                            ![Len(w_log)].dtypes = second.dtypes]
                  /\ w_written' =
                         w_written \cup
                             (IF close_saves(w_workbook, saves)
                              THEN {File(w_filepath, "ExcelWriter")} ELSE {})
                  /\ w_result' = (IF close_saves(w_workbook, saves)
                                  THEN second.result ELSE "IndexError")
                  /\ w_pc' = "done"
                  /\ UNCHANGED <<w_idx>>
    /\ UNCHANGED <<w_filepath, w_ext, w_kind, w_sheets, w_workbook>>

\* the loop is over: the with block ends and write returns
WriteSheetsClose ==
    /\ OnlyWrite
    /\ w_pc = "sheets"
    /\ w_idx > Len(w_sheets)
    /\ \E saves \in BOOLEAN :
          IF close_saves(w_workbook, saves)
          THEN /\ w_written' = w_written \cup {File(w_filepath, "ExcelWriter")}
               /\ w_result' = "returned"
          ELSE /\ w_written' = w_written
               /\ w_result' = "IndexError"
    /\ w_pc' = "done"
    /\ UNCHANGED <<w_filepath, w_ext, w_kind, w_sheets, w_idx, w_workbook, w_log>>

(***************************************************************************)
(* The specifications: one per component, the others at rest               *)
(***************************************************************************)
InitPath ==
    /\ InitPathVars /\ IdleLookup /\ IdleHist /\ IdleCandles /\ IdleRead /\ IdleWrite
    /\ storage_options = "undefined"

SpecPath == InitPath /\ [][NextPath]_vars

InitLookup ==
    /\ IdlePath /\ InitLookupVars /\ IdleHist /\ IdleCandles /\ IdleRead /\ IdleWrite
    /\ storage_options = "undefined"

SpecLookup == InitLookup /\ [][NextLookup]_vars

InitHist ==
    /\ IdlePath /\ IdleHist /\ IdleCandles /\ IdleRead /\ IdleWrite
    /\ instrument_list = HistInstruments
    /\ exchange = DefaultExchange
    /\ q_kind = None /\ q_arg = None /\ q_first = None /\ q_second = None
    /\ q_pc = "idle"
    /\ storage_options = "undefined"

SpecHist == InitHist /\ [][NextHist]_vars

\* the loop runs in one thread with nothing to wait for but the API's answer
FairSpecHist == SpecHist /\ WF_vars(NextHist)

\* the two candle fetchers, called with either exchange over instrument lists
\* that hold the ticker on one exchange, on the other, or on both
CandleLists ==
    { HistInstruments,
      << [name |-> "FOO", symbol |-> <<"FOO", "-", "EQ">>, exch_seg |-> "BSE",
          token |-> "456"] >>,
      << [name |-> "FOO", symbol |-> <<"FOO", "-", "EQ">>, exch_seg |-> "NSE",
          token |-> "123"],
         [name |-> "FOO", symbol |-> <<"FOO", "-", "EQ">>, exch_seg |-> "BSE",
          token |-> "456"] >> }

InitCandles ==
    /\ IdlePath /\ IdleHist /\ IdleCandles /\ IdleRead /\ IdleWrite
    /\ instrument_list \in CandleLists
    /\ exchange \in Exchanges
    /\ q_kind = None /\ q_arg = None /\ q_first = None /\ q_second = None
    /\ q_pc = "idle"
    /\ storage_options = "undefined"

SpecCandles ==
    InitCandles
        /\ [][HistStart \/ HistRequest \/ HistReturn
              \/ HistDataStart \/ HistDataRequest \/ HistDataReturn]_vars

InitRead ==
    /\ IdlePath /\ IdleLookup /\ IdleHist /\ IdleCandles /\ InitReadVars /\ IdleWrite
    /\ storage_options = "undefined"

ConfigureBeforeRead ==
    /\ r_pc = "start"
    /\ Configure
    /\ UNCHANGED <<pathVars, lookupVars, histVars, candleVars, readVars, writeVars>>

NextRead == ConfigureBeforeRead \/ Read

SpecRead == InitRead /\ [][NextRead]_vars

InitWrite ==
    /\ IdlePath /\ IdleLookup /\ IdleHist /\ IdleCandles /\ IdleRead /\ InitWriteVars
    /\ storage_options = "undefined"

ConfigureBeforeWrite ==
    /\ w_pc = "start"
    /\ Configure
    /\ UNCHANGED <<pathVars, lookupVars, histVars, candleVars, readVars, writeVars>>

NextWrite ==
    \/ ConfigureBeforeWrite
    \/ WriteCall \/ WriteParquet \/ WriteSheetsOpen
    \/ WriteSheet \/ WriteSheetAgain \/ WriteSheetsClose

SpecWrite == InitWrite /\ [][NextWrite]_vars

(***************************************************************************)
(* The claims                                                              *)
(***************************************************************************)
from_of(k) == strptime(requests[k].fromdate)
to_of(k) == strptime(requests[k].todate)

\* C1: a range shorter than 30 days is fetched with exactly one request;
\* duration 65 is fetched with exactly three requests, each window starting
\* one day after the previous window's end and spanning 30 days, the last
\* one ending at the overall end date.
C1_RequestCounts ==
    h_pc = "done" =>
        /\ (st_date < end_date /\ end_date - st_date < timedelta(30))
               => Len(requests) = 1
        /\ duration = 65 =>
               /\ Len(requests) = 3
               /\ from_of(1) = st_date
               /\ \A k \in 1..2 :
                     /\ to_of(k) = from_of(k) + timedelta(30)
                     /\ from_of(k + 1) = to_of(k) + timedelta(1)
               /\ to_of(3) = end_date

\* the rows of the final series that carry timestamp t
RowsAt(series, t) == {i \in 1..Len(series) : series[i].index = t}

\* C2: the returned series holds exactly one row per distinct timestamp of
\* the concatenated rows, and it is the first row with that timestamp in
\* concatenation order.
C2_OneRowPerTimestamp ==
    h_pc = "done" =>
        LET all == set_index(df_data)
            first(t) == all[CHOOSE i \in RowsAt(all, t) :
                               \A j \in RowsAt(all, t) : i <= j]
        IN /\ {h_result[i].index : i \in 1..Len(h_result)}
                  = {all[i].index : i \in 1..Len(all)}
           /\ \A i \in 1..Len(h_result) :
                 /\ Cardinality(RowsAt(h_result, h_result[i].index)) = 1
                 /\ h_result[i] = first(h_result[i].index)

\* the parquet files of the directory
ParquetFilesOf(dir, fs) ==
    { f \in fs : startswith(f, dir \o <<"/">>) /\ f[Len(f)] = "parquet" }

\* C3: read of a path without extension, concat absent, yields the
\* concatenation of the directory's parquet files, and an empty dataset,
\* not a failure, when the directory holds no parquet file.
C3_DirectoryReadsParquetFiles ==
    (/\ r_pc = "done"
     /\ storage_options = "defined"
     /\ r_filepath = ReadDir
     /\ r_concat = NoConcat
     /\ r_kwargs = NoKwargs)
        => /\ r_result.kind = "dataset"
           /\ Len(r_result.rows) = Cardinality(ParquetFilesOf(ReadDir, files))
           /\ {r_result.rows[i] : i \in 1..Len(r_result.rows)}
                  = ParquetFilesOf(ReadDir, files)

\* the data a format's writer takes
ValidData(ext, kind) ==
    IF ext \in {<<"xlsx">>, <<"xls">>, <<"csv">>, <<"parquet">>} THEN kind = "DataFrame"
    ELSE IF ext = <<"ubj">> THEN kind = "model"
    ELSE IF ext \in {<<"yml">>, <<"yaml">>} THEN kind \in {"DataFrame", "dict"}
    ELSE TRUE

\* the writer the claim expects for each supported extension
ExpectedWriter(ext) ==
    IF ext \in {<<"xlsx">>, <<"xls">>} THEN "to_excel"
    ELSE IF ext = <<"csv">> THEN "to_csv"
    ELSE IF ext = <<"parquet">> THEN "to_parquet"
    ELSE IF ext \in {<<"pkl">>, <<"pickle">>} THEN "pkl.dump"
    ELSE IF ext \in {<<"yml">>, <<"yaml">>} THEN "yaml.dump"
    ELSE IF ext = <<"joblib">> THEN "joblib.dump"
    ELSE "save_model"

\* C4: write of valid data persists it at filepath through the format's
\* writer for every extension of the supported list, and raises
\* NotImplementedError for exactly the others.
C4_EverySupportedExtensionIsWritten ==
    (/\ w_pc = "done"
     /\ storage_options = "defined"
     /\ w_kind # "dict" \/ w_ext \notin {<<"xlsx">>, <<"xls">>}
     /\ ValidData(w_ext, w_kind)
     /\ w_ext = <<"parquet">> => w_log[1].script = <<>>)
        => IF w_ext \in Supported
           THEN /\ w_result = "returned"
                /\ File(w_filepath, ExpectedWriter(w_ext)) \in w_written
           ELSE w_result = "NotImplementedError"

\* the directory part of a path, the separator included
DirOf(path) == SubSeq(path, 1, LastIndexOf(path, "/", Len(path)))

\* a finished write of a mapping of sheets to a workbook
SheetsRun ==
    /\ w_pc = "done" /\ w_kind = "dict" /\ w_ext \in {<<"xlsx">>, <<"xls">>}
    /\ storage_options = "defined"

\* what C5 promises of a finished write of sheets
SheetsAllPlaced ==
    /\ w_result = "returned"
    /\ Len(w_log) = Len(w_sheets)
    /\ File(w_filepath, "ExcelWriter") \in w_written
    /\ \A i \in 1..Len(w_log) :
          IF w_log[i].to_excel = "ok"
          THEN \E k \in 1..Len(w_workbook) : w_workbook[k] = w_sheets[i]
          ELSE File(DirOf(w_filepath) \o w_sheets[i] \o <<".", "parquet">>,
                    "to_parquet") \in w_written

\* C5: given a mapping that holds a sheet, whatever the failure of to_excel
\* and for whichever of the sheets, write returns without raising, every
\* failing sheet is in <sheet>.parquet in the workbook's directory and every
\* other sheet is in the workbook.
C5_AnyFailureFallsBackToParquet ==
    (SheetsRun /\ w_sheets # <<>>) => SheetsAllPlaced

\* the column of the dataset a message names, <<>> when it names none
NamedColumn(msg) ==
    IF msg = MsgColumnA THEN <<"a">> ELSE IF msg = MsgColumnB THEN <<"b">> ELSE <<>>

RECURSIVE LeadingNamed(_)
\* how many messages at the head of the script name a column of the dataset
LeadingNamed(script) ==
    IF script = <<>> \/ NamedColumn(Head(script)) = <<>> THEN 0
    ELSE 1 + LeadingNamed(Tail(script))

ParquetRun ==
    /\ w_pc = "done" /\ w_ext = <<"parquet">> /\ w_kind = "DataFrame"
    /\ storage_options = "defined"

\* C6 as amended: every failed attempt whose message names a column of the
\* dataset is followed by the coercion of that column to text and by one more
\* attempt; the write ends with the first attempt that succeeds or that fails
\* naming no column of the dataset, and then IndexError or KeyError reaches
\* the caller.
C6_RetriesWhileAColumnIsNamed ==
    ParquetRun =>
        LET run == w_log[1]
            k == LeadingNamed(run.script)
        IN /\ run.attempts = k + 1
           /\ Len(run.coerced) = k
           /\ \A i \in 1..k :
                 /\ run.coerced[i] = NamedColumn(run.script[i])
                 /\ run.dtypes[run.coerced[i]] = "str"
           /\ w_result = "returned" <=> k = Len(run.script)
           /\ k < Len(run.script) => w_result \in {"IndexError", "KeyError"}

\* C6 as stated: a parquet write makes at most two attempts and at most one
\* coercion; when the retried attempt fails too, the error propagates.
C6_AtMostOneRetry ==
    ParquetRun =>
        /\ w_log[1].attempts <= 2
        /\ Len(w_log[1].coerced) <= 1
        /\ Len(w_log[1].script) >= 2 => w_result # "returned"

\* a write that succeeded at its third attempt, after two coercions
C6_Witness ==
    /\ ParquetRun
    /\ w_log[1].attempts = 3
    /\ w_log[1].coerced = << <<"a">>, <<"b">> >>
    /\ w_result = "returned"

\* the equity instruments of the list on the exchange
Matching(instruments, exch) ==
    {i \in 1..Len(instruments) :
        instruments[i].exch_seg = exch /\ is_equity(instruments[i])}

\* among them a name has one token and a token has one name
OneToOne(instruments, exch) ==
    \A i, j \in Matching(instruments, exch) :
        instruments[i].name = instruments[j].name
            <=> instruments[i].token = instruments[j].token

\* the round trip started from the name or the token of a matching instrument
RoundTripOfMatching ==
    /\ q_pc = "second"
    /\ \E i \in Matching(instrument_list, exchange) :
          q_arg = (IF q_kind = "name" THEN instrument_list[i].name
                   ELSE instrument_list[i].token)

\* C7 as amended: over a list in which, among the equity instruments on the
\* exchange, equal names go with equal tokens and equal tokens with equal
\* names, symbol_lookup(token_lookup(i.name)) = i.name and
\* token_lookup(symbol_lookup(i.token)) = i.token for each of them.
C7_InversesWhenOneToOne ==
    (RoundTripOfMatching /\ OneToOne(instrument_list, exchange))
        => q_second = q_arg

\* C7 as stated: the same over any instrument list.
C7_MutualInverses == RoundTripOfMatching => q_second = q_arg

\* a round trip over a list of two equity instruments on the exchange
C7_Witness ==
    /\ RoundTripOfMatching /\ OneToOne(instrument_list, exchange)
    /\ Cardinality(Matching(instrument_list, exchange)) = 2
    /\ instrument_list[1].name # instrument_list[2].name
    /\ q_arg = instrument_list[2].name
    /\ q_second = q_arg

\* after the drive prefix: nothing, or a backslash and then no ':', no '/'
\* and no directory named mnt that is followed by a separator
BackslashPath(path) ==
    LET rest == SubSeq(path, 3, Len(path))
    IN /\ rest = <<>> \/ rest[1] = "\\"
       /\ \A i \in 1..Len(rest) : rest[i] \notin {":", "/"}
       /\ \A i \in 1..Len(rest) : ~ MatchAt(rest, i, <<"\\", "m", "n", "t", "\\">>)

\* C8 as amended: linux_to_win(win_to_linux(p)) = p for every Windows-style
\* path p whose drive prefix is followed by nothing or by a backslash, and
\* that holds no further ':', no '/' and no '\mnt\'.
C8_RoundTripOfBackslashPaths ==
    (p_pc = "back" /\ is_win(p_in) /\ BackslashPath(p_in)) => p_back = p_in

\* C8 as stated: the same for every Windows-style path.
C8_RoundTripOfEveryWindowsPath ==
    (p_pc = "back" /\ is_win(p_in)) => p_back = p_in

\* C:\Users\x went to /mnt/c/Users/x and came back
C8_Witness ==
    /\ p_pc = "back"
    /\ p_in = <<"C", ":", "\\", "U", "s", "e", "r", "s", "\\", "x">>
    /\ p_posix = <<"/", "m", "n", "t", "/", "c", "/", "U", "s", "e", "r", "s", "/", "x">>
    /\ p_back = p_in

\* C9: whatever the duration and the API's answers, the paging loop ends,
\* and every request starts strictly after the previous request's end.
C9_PagingTerminates ==
    /\ [](\A k \in 1..(Len(requests) - 1) : from_of(k + 1) > to_of(k))
    /\ (h_pc = "loop" ~> h_pc = "done")

\* the loop ended after three requests that the API answered with no rows
C9_Witness ==
    /\ h_pc = "done"
    /\ Len(requests) = 3
    /\ df_data = <<>>

\* C10: for a duration above 1, every instant from the start to the end of
\* the range lies within the window of some request.
C10_WindowsCoverTheRange ==
    (h_pc = "done" /\ duration > 1) =>
        \A t \in st_date..end_date :
            \E k \in 1..Len(requests) : from_of(k) <= t /\ t <= to_of(k)

\* the equity instruments of the list named ticker on exchange exch
Listed(ticker, exch) ==
    { i \in 1..Len(instrument_list) :
        /\ instrument_list[i].name = ticker
        /\ instrument_list[i].exch_seg = exch
        /\ is_equity(instrument_list[i]) }

\* the request's token belongs to an instrument of the request's exchange,
\* or is None when the ticker has no equity instrument there
TokenOnExchange(request, ticker) ==
    IF Listed(ticker, request.exchange) = {}
    THEN request.symboltoken = None
    ELSE \E i \in 1..Len(instrument_list) :
            /\ instrument_list[i].token = request.symboltoken
            /\ instrument_list[i].exch_seg = request.exchange

\* C11: in every candle request of hist_data and hist_data_extended, for
\* every exchange argument, symboltoken is the token of an instrument whose
\* exch_seg is the request's exchange, or None when the list has no equity
\* instrument of that ticker on that exchange.
C11_TokenOnRequestedExchange ==
    /\ \A k \in 1..Len(requests) : TokenOnExchange(requests[k], Ticker)
    /\ \A k \in 1..Len(c_requests) : TokenOnExchange(c_requests[k], c_tickers[k])

=============================================================================
